---- MODULE Spec2Model ----
(***************************************************************************)
(* A model of the centered interval tree generated by                     *)
(* pandas/src/generate_intervaltree.py                                    *)
(* (the IntervalTree class of `header` and the node class of              *)
(* `node_template`, as instantiated by generate_node_template).           *)
(*                                                                         *)
(* Numbers: every bound and query point is a rational with denominator    *)
(* Scale, stored as the integer numerator.  Interval bounds are whole     *)
(* numbers (multiples of Scale); median(left + right) / 2 of whole        *)
(* numbers is a multiple of 1/4, so pivots are exact; query points take   *)
(* every multiple of 1/Scale, so some point lies strictly between any two *)
(* distinct bounds or pivots.                                              *)
(***************************************************************************)
EXTENDS Integers, Sequences, FiniteSets

VARIABLES left, right, closed, dtype, root, left_sorter, right_sorter, call

vars == <<left, right, closed, dtype, root, left_sorter, right_sorter, call>>

----------------------------------------------------------------------------
(* Bounds of the model *)

MaxN == 3
MaxVal == 0
MaxTargets == 2

(* Representation of numbers *)
Scale == 8

Vals == {v * Scale : v \in (-1)..MaxVal}
Intervals == {iv \in Vals \X Vals : iv[1] <= iv[2]}
IntervalSeqs == UNION {[1..n -> Intervals] : n \in 0..MaxN}
Points == (-Scale - 1)..(MaxVal * Scale + 1)
BatchPoints == Vals
TargetSeqs == UNION {[1..n -> BatchPoints] : n \in 0..MaxTargets}
RangeKeys == {p \in Points : p % (Scale \div 2) = 0}
LeafSizes == 0..MaxN
BatchLeafSizes == {1, MaxN}
ClosedArgs == {"left", "right", "both", "neither", "bogus"}
DTypes == {"float64", "int64"}
TieOrders == {"first", "last"}
RecursionLimit == MaxN + 3

----------------------------------------------------------------------------
(* generate_node_template: the comparison operators of each closure mode *)

(* Faulty variant: the left comparison of each closure mode exchanged *)
cmp_left_swapped(c) == IF c \in {"left", "both"} THEN "<" ELSE "<="

cmp_left(c) == IF c \in {"left", "both"} THEN "<=" ELSE "<"

cmp_right(c) == IF c \in {"right", "both"} THEN "<=" ELSE "<"

cmp_left_converse(c) == IF cmp_left(c) = "<=" THEN "<" ELSE "<="

cmp_right_converse(c) == IF cmp_right(c) = "<=" THEN "<" ELSE "<="

Cmp(sym, a, b) == IF sym = "<=" THEN a <= b ELSE a < b

----------------------------------------------------------------------------
(* Array helpers.  Positions inside an array are 1-based here; the values *)
(* of an `indices` array are the 0-based original positions.              *)

arange(n) == [k \in 1..n |-> k - 1]

take(source, subset) == [k \in 1..Len(subset) |-> source[subset[k]]]

SeqToSet(s) == {s[k] : k \in 1..Len(s)}

RECURSIVE OrderSet(_, _, _)
OrderSet(S, values, tie) ==
    IF S = {} THEN <<>>
    ELSE LET m == CHOOSE i \in S : \A j \in S :
                     \/ values[i] < values[j]
                     \/ /\ values[i] = values[j]
                        /\ IF tie = "first" THEN i <= j ELSE i >= j
         IN <<m>> \o OrderSet(S \ {m}, values, tie)

(* An argsort with NPY_QUICKSORT: ascending values, equal values in one of *)
(* the orders the sort may leave them in.                                  *)
ArgSort(values, tie) == OrderSet(1..Len(values), values, tie)

sort_values_and_indices(all_values, all_indices, subset, tie) ==
    LET indices == take(all_indices, subset)
        values == take(all_values, subset)
        sorter == ArgSort(values, tie)
    IN [sorted_values |-> take(values, sorter),
        sorted_indices |-> take(indices, sorter)]

Median(values) ==
    LET n == Len(values)
        s == take(values, ArgSort(values, "first"))
    IN IF n % 2 = 1 THEN s[(n + 1) \div 2]
       ELSE (s[n \div 2] + s[n \div 2 + 1]) \div 2

(* self.pivot is a {dtype}_t attribute: for int64 the float quotient is    *)
(* converted through its integer value, which truncates toward zero.      *)
ToDType(x, dt) ==
    IF dt = "float64" THEN x
    ELSE IF x >= 0 THEN (x \div Scale) * Scale
    ELSE -(((-x) \div Scale) * Scale)

Pivot(l, r, dt) ==
    ToDType(Median([k \in 1..Len(l) |-> l[k] + r[k]]) \div 2, dt)

----------------------------------------------------------------------------
(* The node class *)

RecursionError == [raised |-> "RecursionError"]

Raised(node) == "raised" \in DOMAIN node

(* Faulty variant: classification by the containment comparisons themselves *)
(* instead of their converses *)
classify_intervals_no_converse(l, r, pivot, c) ==
    LET n == Len(l)
        pos == [k \in 1..n |-> k]
        InLeft(i) == Cmp(cmp_right(c), r[i], pivot)
        InRight(i) == ~InLeft(i) /\ Cmp(cmp_left(c), pivot, l[i])
        InCenter(i) == ~InLeft(i) /\ ~InRight(i)
    IN [left_set |-> SelectSeq(pos, InLeft),
        right_set |-> SelectSeq(pos, InRight),
        center_set |-> SelectSeq(pos, InCenter)]

classify_intervals(l, r, pivot, c) ==
    LET n == Len(l)
        pos == [k \in 1..n |-> k]
        InLeft(i) == Cmp(cmp_right_converse(c), r[i], pivot)
        InRight(i) == ~InLeft(i) /\ Cmp(cmp_left_converse(c), pivot, l[i])
        InCenter(i) == ~InLeft(i) /\ ~InRight(i)
    IN [left_set |-> SelectSeq(pos, InLeft),
        right_set |-> SelectSeq(pos, InRight),
        center_set |-> SelectSeq(pos, InCenter)]

RECURSIVE IntervalNode(_, _, _, _, _, _, _, _)
new_child_node(l, r, indices, subset, leaf_size, c, dt, tie, depth) ==
    IntervalNode(take(l, subset), take(r, subset), take(indices, subset),
                 leaf_size, c, dt, tie, depth + 1)

IntervalNode(l, r, indices, leaf_size, c, dt, tie, depth) ==
    IF depth > RecursionLimit THEN RecursionError
    ELSE IF Len(l) <= leaf_size THEN
        [is_leaf_node |-> TRUE, n_elements |-> Len(l), leaf_size |-> leaf_size,
         left |-> l, right |-> r, indices |-> indices]
    ELSE
        LET pivot == Pivot(l, r, dt)
            sets == classify_intervals(l, r, pivot, c)
            left_node == new_child_node(l, r, indices, sets.left_set,
                                        leaf_size, c, dt, tie, depth)
            right_node == new_child_node(l, r, indices, sets.right_set,
                                         leaf_size, c, dt, tie, depth)
            cl == sort_values_and_indices(l, indices, sets.center_set, tie)
            cr == sort_values_and_indices(r, indices, sets.center_set, tie)
        IN IF Raised(left_node) THEN RecursionError
           ELSE IF Raised(right_node) THEN RecursionError
           ELSE [is_leaf_node |-> FALSE, n_elements |-> Len(l),
                 leaf_size |-> leaf_size,
                 pivot |-> pivot,
                 left_node |-> left_node, right_node |-> right_node,
                 center_left_values |-> cl.sorted_values,
                 center_left_indices |-> cl.sorted_indices,
                 center_right_values |-> cr.sorted_values,
                 center_right_indices |-> cr.sorted_indices,
                 n_center |-> Len(cl.sorted_indices)]

(* The longest prefix of positions 1..n whose elements all pass the test *)
RECURSIVE ScanUp(_, _, _, _)
ScanUp(values, sym, point, i) ==
    IF i > Len(values) THEN <<>>
    ELSE IF ~Cmp(sym, values[i], point) THEN <<>>
    ELSE <<i>> \o ScanUp(values, sym, point, i + 1)

(* Faulty variant: the backward scan stops on a strict comparison whatever the *)
(* closure mode *)
RECURSIVE ScanDown_strict(_, _, _, _)
ScanDown_strict(values, sym, point, i) ==
    IF i < 1 THEN <<>>
    ELSE IF ~(point < values[i]) THEN <<>>
    ELSE <<i>> \o ScanDown_strict(values, sym, point, i - 1)

RECURSIVE ScanDown(_, _, _, _)
ScanDown(values, sym, point, i) ==
    IF i < 1 THEN <<>>
    ELSE IF ~Cmp(sym, point, values[i]) THEN <<>>
    ELSE <<i>> \o ScanDown(values, sym, point, i - 1)

RECURSIVE query(_, _, _)
query(node, point, c) ==
    IF node.is_leaf_node THEN
        LET pos == [k \in 1..node.n_elements |-> k]
            Hit(i) == /\ Cmp(cmp_left(c), node.left[i], point)
                      /\ Cmp(cmp_right(c), point, node.right[i])
        IN take(node.indices, SelectSeq(pos, Hit))
    ELSE IF point < node.pivot THEN
        take(node.center_left_indices,
             ScanUp(node.center_left_values, cmp_left(c), point, 1))
        \o query(node.left_node, point, c)
    ELSE IF point > node.pivot THEN
        take(node.center_right_indices,
             ScanDown(node.center_right_values, cmp_right(c), point, node.n_center))
        \o query(node.right_node, point, c)
    ELSE node.center_left_indices

----------------------------------------------------------------------------
(* The tree class.  A call's outcome is a record: `raised` names the      *)
(* exception ("none" when the call returned), `returned` tells whether a  *)
(* value reached the caller, `result` and `missing` are the arrays.       *)

Returns(result, missing) ==
    [raised |-> "none", returned |-> TRUE, result |-> result, missing |-> missing]

Raises(exc) ==
    [raised |-> exc, returned |-> FALSE, result |-> <<>>, missing |-> <<>>]

(* Faulty variant: an empty result is returned instead of raising *)
get_loc_no_raise(node, key, c) == Returns(query(node, key, c), <<>>)

get_loc(node, key, c) ==
    LET result == query(node, key, c)
    IN IF Len(result) = 0 THEN Raises("KeyError") ELSE Returns(result, <<>>)

(* Faulty variant: a point without a match leaves no entry *)
RECURSIVE get_indexer_loop_no_sentinel(_, _, _, _, _, _)
get_indexer_loop_no_sentinel(node, target, c, i, result, old_len) ==
    IF i > Len(target) THEN Returns(result, <<>>)
    ELSE LET queried == result \o query(node, target[i], c)
         IN IF Len(queried) > old_len + 1 THEN Raises("KeyError")
            ELSE get_indexer_loop_no_sentinel(node, target, c, i + 1,
                                              queried, Len(queried))

(* Faulty variant: two matches are accepted, only three or more raise *)
RECURSIVE get_indexer_loop_late_raise(_, _, _, _, _, _)
get_indexer_loop_late_raise(node, target, c, i, result, old_len) ==
    IF i > Len(target) THEN Returns(result, <<>>)
    ELSE LET queried == result \o query(node, target[i], c)
         IN IF Len(queried) = old_len
            THEN get_indexer_loop_late_raise(node, target, c, i + 1,
                                             Append(queried, -1), old_len + 1)
            ELSE IF Len(queried) > old_len + 2 THEN Raises("KeyError")
            ELSE get_indexer_loop_late_raise(node, target, c, i + 1,
                                             queried, Len(queried))

RECURSIVE get_indexer_loop(_, _, _, _, _, _)
get_indexer_loop(node, target, c, i, result, old_len) ==
    IF i > Len(target) THEN Returns(result, <<>>)
    ELSE LET queried == result \o query(node, target[i], c)
         IN IF Len(queried) = old_len
            THEN get_indexer_loop(node, target, c, i + 1,
                                  Append(queried, -1), old_len + 1)
            ELSE IF Len(queried) > old_len + 1 THEN Raises("KeyError")
            ELSE get_indexer_loop(node, target, c, i + 1, queried, Len(queried))

get_indexer(node, target, c) == get_indexer_loop(node, target, c, 1, <<>>, 0)

(* Faulty variant: old_len is not advanced past the -1 entry *)
RECURSIVE get_indexer_non_unique_loop_stale(_, _, _, _, _, _, _)
get_indexer_non_unique_loop_stale(node, target, c, i, result, missing, old_len) ==
    IF i > Len(target) THEN Returns(result, missing)
    ELSE LET queried == result \o query(node, target[i], c)
         IN IF Len(queried) = old_len
            THEN get_indexer_non_unique_loop_stale(node, target, c, i + 1,
                     Append(queried, -1), Append(missing, i - 1), old_len)
            ELSE get_indexer_non_unique_loop_stale(node, target, c, i + 1,
                     queried, missing, Len(queried))

RECURSIVE get_indexer_non_unique_loop(_, _, _, _, _, _, _)
get_indexer_non_unique_loop(node, target, c, i, result, missing, old_len) ==
    IF i > Len(target) THEN Returns(result, missing)
    ELSE LET queried == result \o query(node, target[i], c)
         IN IF Len(queried) = old_len
            THEN get_indexer_non_unique_loop(node, target, c, i + 1,
                     Append(queried, -1), Append(missing, i - 1), old_len + 1)
            ELSE get_indexer_non_unique_loop(node, target, c, i + 1,
                     queried, missing, Len(queried))

get_indexer_non_unique(node, target, c) ==
    get_indexer_non_unique_loop(node, target, c, 1, <<>>, <<>>, 0)

(* values.searchsorted(key, sorter=sorter), side='left': the number of    *)
(* values strictly below the key                                           *)
searchsorted(values, key) == Cardinality({k \in 1..Len(values) : values[k] < key})

(* sorter holds 0-based positions; sorter[i:j] *)
get_partial_overlap(values, sorter, key_left, key_right) ==
    LET i == searchsorted(values, key_left)
        j == searchsorted(values, key_right)
    IN SubSeq(sorter, i + 1, j)

RECURSIVE unique(_)
unique(s) ==
    IF Len(s) = 0 THEN <<>>
    ELSE LET init == unique(SubSeq(s, 1, Len(s) - 1))
             last == s[Len(s)]
         IN IF last \in SeqToSet(init) THEN init ELSE Append(init, last)

get_loc_interval(node, l, r, lsorter, rsorter, key_left, key_right, c) ==
    LET left_overlap == get_partial_overlap(l, lsorter, key_left, key_right)
        right_overlap == get_partial_overlap(r, rsorter, key_left, key_right)
        enclosing == get_loc(node, (key_left + key_right) \div 2, c)
    IN IF enclosing.raised # "none" THEN enclosing
       ELSE Returns(unique(left_overlap \o right_overlap \o enclosing.result), <<>>)

(* np.argsort(values): 0-based positions *)
argsort(values, tie) == [k \in 1..Len(values) |-> ArgSort(values, tie)[k] - 1]

----------------------------------------------------------------------------
(* State machine: one tree object and the outcome of the last call on it. *)

NoTree == [absent |-> TRUE]
None == <<-1>>
NoCall == [name |-> "none", args |-> <<>>, out |-> Returns(<<>>, <<>>)]

Built == "is_leaf_node" \in DOMAIN root
Idle == call.name = "none"

Init ==
    /\ left = <<>>
    /\ right = <<>>
    /\ closed = "none"
    /\ dtype = "none"
    /\ root = NoTree
    /\ left_sorter = None
    /\ right_sorter = None
    /\ call = NoCall

(* IntervalTree.__init__ *)
Construct(l, r, c, dt, leaf_size, tie) ==
    /\ ~Built
    /\ Idle
    /\ LET args == [left |-> l, right |-> r, closed |-> c, dtype |-> dt,
                    leaf_size |-> leaf_size]
           node == IntervalNode(l, r, arange(Len(l)), leaf_size, c, dt, tie, 1)
       IN IF c \notin {"left", "right", "both", "neither"}
          THEN /\ call' = [name |-> "__init__", args |-> args, out |-> Raises("ValueError")]
               /\ UNCHANGED <<left, right, closed, dtype, root>>
          ELSE IF Raised(node)
          THEN /\ call' = [name |-> "__init__", args |-> args,
                           out |-> Raises("RecursionError")]
               /\ UNCHANGED <<left, right, closed, dtype, root>>
          ELSE /\ call' = [name |-> "__init__", args |-> args, out |-> Returns(<<>>, <<>>)]
               /\ left' = l
               /\ right' = r
               /\ closed' = c
               /\ dtype' = dt
               /\ root' = node
    /\ UNCHANGED <<left_sorter, right_sorter>>

(* IntervalNode.query on the root, with a fresh result vector *)
Query(point) ==
    /\ Built
    /\ Idle
    /\ call' = [name |-> "query", args |-> [point |-> point],
                out |-> Returns(query(root, point, closed), <<>>)]
    /\ UNCHANGED <<left, right, closed, dtype, root, left_sorter, right_sorter>>

GetLoc(key) ==
    /\ Built
    /\ Idle
    /\ call' = [name |-> "get_loc", args |-> [key |-> key],
                out |-> get_loc(root, key, closed)]
    /\ UNCHANGED <<left, right, closed, dtype, root, left_sorter, right_sorter>>

GetLocInterval(key_left, key_right, tie) ==
    /\ Built
    /\ Idle
    /\ left_sorter' = IF left_sorter = None THEN argsort(left, tie) ELSE left_sorter
    /\ right_sorter' = IF right_sorter = None THEN argsort(right, tie) ELSE right_sorter
    /\ call' = [name |-> "get_loc_interval",
                args |-> [key_left |-> key_left, key_right |-> key_right],
                out |-> get_loc_interval(root, left, right, left_sorter', right_sorter',
                                         key_left, key_right, closed)]
    /\ UNCHANGED <<left, right, closed, dtype, root>>

GetIndexer(target) ==
    /\ Built
    /\ Idle
    /\ call' = [name |-> "get_indexer", args |-> [target |-> target],
                out |-> get_indexer(root, target, closed)]
    /\ UNCHANGED <<left, right, closed, dtype, root, left_sorter, right_sorter>>

GetIndexerNonUnique(target) ==
    /\ Built
    /\ Idle
    /\ call' = [name |-> "get_indexer_non_unique", args |-> [target |-> target],
                out |-> get_indexer_non_unique(root, target, closed)]
    /\ UNCHANGED <<left, right, closed, dtype, root, left_sorter, right_sorter>>

(* The caller takes the outcome; the accumulators of a call are local to it *)
Discard ==
    /\ ~Idle
    /\ call' = NoCall
    /\ UNCHANGED <<left, right, closed, dtype, root, left_sorter, right_sorter>>

ConstructAny ==
    /\ ~Built
    /\ Idle
    /\ \E iv \in IntervalSeqs, c \in ClosedArgs, dt \in DTypes,
          leaf_size \in LeafSizes, tie \in TieOrders :
        Construct([k \in 1..Len(iv) |-> iv[k][1]], [k \in 1..Len(iv) |-> iv[k][2]],
                  c, dt, leaf_size, tie)

(* The example tree of the documentation: (0,2), (1,3), (5,7) *)
ExampleLeft == <<0, Scale, 5 * Scale>>
ExampleRight == <<2 * Scale, 3 * Scale, 7 * Scale>>
ExamplePoints == (-1)..(7 * Scale + 1)

ConstructExample ==
    /\ ~Built
    /\ Idle
    /\ \E dt \in DTypes, leaf_size \in 0..Len(ExampleLeft), tie \in TieOrders :
        Construct(ExampleLeft, ExampleRight, "right", dt, leaf_size, tie)

(* Trees for the batch lookups: fully split (leaf_size 1) or a single leaf *)
ConstructBatch ==
    /\ ~Built
    /\ Idle
    /\ \E iv \in IntervalSeqs, c \in ClosedArgs, dt \in DTypes,
          leaf_size \in BatchLeafSizes, tie \in TieOrders :
        Construct([k \in 1..Len(iv) |-> iv[k][1]], [k \in 1..Len(iv) |-> iv[k][2]],
                  c, dt, leaf_size, tie)

QueryAny == Built /\ Idle /\ \E point \in Points : Query(point)

QueryExample == Built /\ Idle /\ \E point \in ExamplePoints : Query(point)

GetLocAny == Built /\ Idle /\ \E key \in Points : GetLoc(key)

GetLocIntervalAny ==
    /\ Built
    /\ Idle
    /\ \E key_left \in RangeKeys, key_right \in RangeKeys, tie \in TieOrders :
        key_left <= key_right /\ GetLocInterval(key_left, key_right, tie)

GetIndexerAny == Built /\ Idle /\ \E target \in TargetSeqs : GetIndexer(target)

GetIndexerNonUniqueAny == Built /\ Idle /\ \E target \in TargetSeqs : GetIndexerNonUnique(target)

Next == ConstructAny \/ QueryAny \/ Discard

Spec == Init /\ [][Next]_vars

NextLoc == ConstructAny \/ GetLocAny \/ Discard

SpecLoc == Init /\ [][NextLoc]_vars

NextIndexer == ConstructBatch \/ GetIndexerAny \/ Discard

SpecIndexer == Init /\ [][NextIndexer]_vars

NextNonUnique == ConstructBatch \/ GetIndexerNonUniqueAny \/ Discard

SpecNonUnique == Init /\ [][NextNonUnique]_vars

NextRange == ConstructAny \/ GetLocIntervalAny \/ Discard

SpecRange == Init /\ [][NextRange]_vars

NextExample == ConstructExample \/ QueryExample \/ Discard

SpecExample == Init /\ [][NextExample]_vars

----------------------------------------------------------------------------
(* Reference definitions for the properties: containment by the closure   *)
(* table of the documentation, computed over the original arrays.         *)

Contains(c, l, r, p) ==
    /\ IF c \in {"left", "both"} THEN l <= p ELSE l < p
    /\ IF c \in {"right", "both"} THEN p <= r ELSE p < r

Matches(p) == {i \in 0..(Len(left) - 1) : Contains(closed, left[i + 1], right[i + 1], p)}

NoDuplicates(s) == \A i, j \in 1..Len(s) : s[i] = s[j] => i = j

ValidClosed(c) == c \in {"left", "right", "both", "neither"}

RECURSIVE NodesOf(_)
NodesOf(node) ==
    IF node.is_leaf_node THEN {node}
    ELSE {node} \cup NodesOf(node.left_node) \cup NodesOf(node.right_node)

RECURSIVE PositionsOf(_)
PositionsOf(node) ==
    IF node.is_leaf_node THEN SeqToSet(node.indices)
    ELSE SeqToSet(node.center_left_indices)
         \cup PositionsOf(node.left_node) \cup PositionsOf(node.right_node)

InternalNodes == IF Built THEN {n \in NodesOf(root) : ~n.is_leaf_node} ELSE {}

(* C1: a point query on the root of a built tree appends exactly the      *)
(* positions of the intervals that contain the point under the closure    *)
(* table, computed by brute force over the original arrays.               *)
C1_QueryEqualsBruteForce ==
    call.name = "query" =>
        /\ SeqToSet(call.out.result) = Matches(call.args.point)
        /\ NoDuplicates(call.out.result)

C1_Witness ==
    /\ call.name = "query"
    /\ ~root.is_leaf_node
    /\ call.args.point # root.pivot
    /\ Len(call.out.result) >= 2
    /\ \E i \in 1..Len(left) :
          /\ (left[i] = call.args.point \/ right[i] = call.args.point)
          /\ (i - 1) \notin SeqToSet(call.out.result)

(* C2: get_loc raises KeyError exactly when no interval contains the key; *)
(* otherwise it returns the non-empty array of the positions of the       *)
(* intervals that contain the key.                                        *)
C2_GetLocKeyError ==
    call.name = "get_loc" =>
        /\ (call.out.raised = "KeyError") <=> (Matches(call.args.key) = {})
        /\ call.out.raised \in {"none", "KeyError"}
        /\ call.out.raised = "none" =>
              /\ call.out.returned
              /\ Len(call.out.result) > 0
              /\ SeqToSet(call.out.result) = Matches(call.args.key)
              /\ NoDuplicates(call.out.result)

C2_Witness ==
    /\ call.name = "get_loc"
    /\ call.out.raised = "KeyError"
    /\ ~root.is_leaf_node
    /\ \E i \in 1..Len(left) :
          left[i] < right[i] /\ call.args.key \in {left[i], right[i]}

(* C3: when every point of the target lies in at most one interval,       *)
(* get_indexer returns one entry per point, in order: the position of the *)
(* interval containing the point, or -1 when there is none.               *)
C3_IndexerUnique ==
    (/\ call.name = "get_indexer"
     /\ \A j \in 1..Len(call.args.target) :
           Cardinality(Matches(call.args.target[j])) <= 1) =>
        /\ call.out.raised = "none"
        /\ call.out.returned
        /\ Len(call.out.result) = Len(call.args.target)
        /\ \A j \in 1..Len(call.args.target) :
              IF Matches(call.args.target[j]) = {}
              THEN call.out.result[j] = -1
              ELSE call.out.result[j] \in Matches(call.args.target[j])

C3_Witness ==
    /\ call.name = "get_indexer"
    /\ ~root.is_leaf_node
    /\ Len(call.args.target) = 2
    /\ call.out.raised = "none"
    /\ call.out.result[1] = -1
    /\ call.out.result[2] >= 1

(* C4: get_indexer raises exactly when some point of the target lies in   *)
(* more than one interval, wherever it stands in the target, and then no  *)
(* array reaches the caller.                                              *)
C4_IndexerNonUniqueFails ==
    call.name = "get_indexer" =>
        /\ (call.out.raised = "KeyError") <=>
              (\E j \in 1..Len(call.args.target) :
                  Cardinality(Matches(call.args.target[j])) > 1)
        /\ call.out.raised \in {"none", "KeyError"}
        /\ call.out.raised = "KeyError" =>
              (~call.out.returned /\ call.out.result = <<>>)

C4_Witness ==
    /\ call.name = "get_indexer"
    /\ call.out.raised = "KeyError"
    /\ Len(call.args.target) = 2
    /\ Cardinality(Matches(call.args.target[1])) = 1
    /\ Cardinality(Matches(call.args.target[2])) > 1

RECURSIVE ExpectedBlocks(_, _, _)
(* result[from..] is the blocks of target[j..], block by block *)
ExpectedBlocks(result, target, j) ==
    IF j > Len(target) THEN result = <<>>
    ELSE LET m == Matches(target[j])
             size == IF m = {} THEN 1 ELSE Cardinality(m)
             block == SubSeq(result, 1, size)
         IN /\ Len(result) >= size
            /\ IF m = {} THEN block = <<-1>>
               ELSE SeqToSet(block) = m /\ NoDuplicates(block)
            /\ ExpectedBlocks(SubSeq(result, size + 1, Len(result)), target, j + 1)

(* C5: get_indexer_non_unique never raises; its result is, point by point *)
(* in order, the positions of the intervals containing the point (each    *)
(* once) or the single entry -1, and missing is the ascending list of the *)
(* target positions whose point lies in no interval.                      *)
C5_NonUniqueBlocks ==
    call.name = "get_indexer_non_unique" =>
        /\ call.out.raised = "none"
        /\ call.out.returned
        /\ ExpectedBlocks(call.out.result, call.args.target, 1)
        /\ call.out.missing =
              SelectSeq([k \in 1..Len(call.args.target) |-> k - 1],
                        LAMBDA j : Matches(call.args.target[j + 1]) = {})

C5_Witness ==
    /\ call.name = "get_indexer_non_unique"
    /\ ~root.is_leaf_node
    /\ Len(call.args.target) = 2
    /\ Cardinality(Matches(call.args.target[1])) = 0
    /\ Cardinality(Matches(call.args.target[2])) >= 2
    /\ call.out.missing = <<0>>

(* C6: for every interval set and closure mode, the tree with leaf_size 1 *)
(* and the tree with leaf_size n both get built, and a point query        *)
(* returns the same set of positions from both.                           *)
C6_LeafInternalEquivalence ==
    /\ (/\ call.name = "__init__"
        /\ ValidClosed(call.args.closed)
        /\ call.args.leaf_size \in {1, Len(call.args.left)}) =>
            call.out.raised = "none"
    /\ (call.name = "query" /\ root.leaf_size = 1) =>
            LET leaf == IntervalNode(left, right, arange(Len(left)), Len(left),
                                     closed, dtype, "first", 1)
            IN /\ ~Raised(leaf)
               /\ SeqToSet(call.out.result) = SeqToSet(query(leaf, call.args.point, closed))

(* C7: for key_left <= key_right, get_loc_interval returns, each once,    *)
(* the positions whose left bound or right bound lies in the closed range *)
(* [key_left, key_right] or whose interval contains the midpoint.         *)
C7_RangeLookup ==
    call.name = "get_loc_interval" =>
        /\ call.out.raised = "none"
        /\ NoDuplicates(call.out.result)
        /\ SeqToSet(call.out.result) =
              {i \in 0..(Len(left) - 1) :
                  \/ call.args.key_left <= left[i + 1] /\ left[i + 1] <= call.args.key_right
                  \/ call.args.key_left <= right[i + 1] /\ right[i + 1] <= call.args.key_right}
              \cup Matches((call.args.key_left + call.args.key_right) \div 2)

ExampleBuilt == Built /\ left = ExampleLeft /\ right = ExampleRight /\ closed = "right"

(* C8 as stated: in the example tree, closed on the right, the point 1    *)
(* lies in intervals {0, 1} and the point 2 in interval {0} only.         *)
C8_ExampleAsStated ==
    (ExampleBuilt /\ call.name = "query") =>
        /\ call.args.point = Scale => SeqToSet(call.out.result) = {0, 1}
        /\ call.args.point = 2 * Scale => SeqToSet(call.out.result) = {0}

(* C8 amended: in the example tree, closed on the right, the point 1 lies *)
(* in interval {0} only (interval 1 is open at 1) and the point 2 lies in *)
(* intervals {0, 1} (interval 0 is closed at 2).                          *)
C8_Example ==
    (ExampleBuilt /\ call.name = "query") =>
        /\ call.args.point = Scale => SeqToSet(call.out.result) = {0}
        /\ call.args.point = 2 * Scale => SeqToSet(call.out.result) = {0, 1}

C8_Witness ==
    /\ ExampleBuilt
    /\ ~root.is_leaf_node
    /\ call.name = "query"
    /\ call.args.point = Scale
    /\ call.out.result = <<0>>

(* C9: at every internal node, every centered interval contains the       *)
(* pivot; no interval of the left subtree contains the pivot or a point   *)
(* above it; no interval of the right subtree contains the pivot or a     *)
(* point below it.                                                        *)
C9_ClassificationInvariant ==
    \A n \in InternalNodes :
        /\ \A i \in SeqToSet(n.center_left_indices) \cup SeqToSet(n.center_right_indices) :
              Contains(closed, left[i + 1], right[i + 1], n.pivot)
        /\ \A i \in PositionsOf(n.left_node) : \A p \in Points :
              p >= n.pivot => ~Contains(closed, left[i + 1], right[i + 1], p)
        /\ \A i \in PositionsOf(n.right_node) : \A p \in Points :
              p <= n.pivot => ~Contains(closed, left[i + 1], right[i + 1], p)

C9_Witness ==
    /\ Built
    /\ ~root.is_leaf_node
    /\ root.n_center >= 1
    /\ root.left_node.n_elements >= 1
    /\ root.right_node.n_elements >= 1
    /\ ~root.left_node.is_leaf_node

(* C10: for every valid input with leaf_size >= 1 the build produces a    *)
(* tree, each child of an internal node holding strictly fewer intervals  *)
(* than the node.                                                         *)
C10_ConstructionTerminates ==
    /\ (/\ call.name = "__init__"
        /\ ValidClosed(call.args.closed)
        /\ call.args.leaf_size >= 1) => call.out.raised = "none"
    /\ \A n \in InternalNodes :
          /\ n.left_node.n_elements < n.n_elements
          /\ n.right_node.n_elements < n.n_elements

====
